---- MODULE Spec2Model ----
(***************************************************************************)
(* Model of packages/gatsby/src/utils/babel/babel-module-export-utils.ts:  *)
(* the named-export comparator functions (isNamedExportFunction,           *)
(* isNamedExportVariable, isNamedExportDestructuredVariable,               *)
(* isNamedExportSpecifier, isNamedExport) and the                          *)
(* RemoveNamedExportPropertiesVisitor.                                     *)
(*                                                                         *)
(* Babel AST nodes are records tagged by `type`.  A field that a node kind *)
(* does not carry holds Undefined (a string no identifier is named by), so *)
(* that `x?.name === name` on a missing node is false, as in JavaScript.   *)
(***************************************************************************)
EXTENDS Integers, Sequences, FiniteSets

\* ------------------------------------------------------------------ bounds
\* Largest number of declarators plus destructured properties of one
\* exported variable declaration.
MaxNodes == 4
\* Longest specifier list of an `export { ... }` declaration.
MaxSpecifiers == 2
\* Longest property list of an object pattern handed to the visitor.
MaxPatternLen == 3
\* How many times the visitor is run over the same pattern.
MaxPasses == MaxPatternLen

\* ------------------------------------------------------------- AST values
\* Identifier names of the modelled modules.
Names == {"a", "b", "c"}
\* JavaScript's undefined, where a name is read off a missing node.
Undefined == "undefined"

\* An Identifier node.
Identifier(n) == [type |-> "Identifier", name |-> n]
\* An absent child (null), or a child of a kind whose name is never read.
NoNode(t) == [type |-> t, name |-> Undefined]

\* properties[k] of an ObjectPattern.  uid is the node's identity (in the
\* program: the object reference), set to its position at parse time.
ObjectProperty(k, v) == [type |-> "ObjectProperty", key |-> k, value |-> v, uid |-> 0]
RestElement == [type |-> "RestElement", key |-> Undefined, value |-> NoNode("undefined"), uid |-> 0]

\* Gives every entry of a freshly parsed list its own identity.
Stamp(s) == [k \in 1..Len(s) |-> [s[k] EXCEPT !.uid = k]]

\* The id of a VariableDeclarator / FunctionDeclaration: an LVal.
IdentifierId(n) == [type |-> "Identifier", name |-> n, properties |-> <<>>]
ObjectPatternId(ps) == [type |-> "ObjectPattern", name |-> Undefined, properties |-> ps]
ArrayPatternId == [type |-> "ArrayPattern", name |-> Undefined, properties |-> <<>>]
NullId == [type |-> "null", name |-> Undefined, properties |-> <<>>]

VariableDeclarator(id) == [type |-> "VariableDeclarator", id |-> id]

\* node.declaration of an ExportNamedDeclaration.
NullDeclaration == [type |-> "null", id |-> NullId, declarations |-> <<>>]
FunctionDeclaration(id) == [type |-> "FunctionDeclaration", id |-> id, declarations |-> <<>>]
ClassDeclaration(id) == [type |-> "ClassDeclaration", id |-> id, declarations |-> <<>>]
VariableDeclaration(ds) == [type |-> "VariableDeclaration", id |-> NullId, declarations |-> ds]

\* node.specifiers[k]: `local as exported`, `local as "exported"`, `* as exported`.
ExportSpecifier(l, e) == [type |-> "ExportSpecifier", local |-> l, exported |-> e]
ExportNamespaceSpecifier(e) == [type |-> "ExportNamespaceSpecifier", local |-> Undefined, exported |-> e]
StringLiteral == [type |-> "StringLiteral", name |-> Undefined]

ExportNamedDeclaration(d, ss) == [declaration |-> d, specifiers |-> ss]

\* --------------------------------------------------- @babel/types helpers
\* isIdentifier(node) and isExportSpecifier(node) of @babel/types.
isIdentifier(n) == n.type = "Identifier"
isExportSpecifier(n) == n.type = "ExportSpecifier"

\* ------------------------------------------------------------- comparators
\* export function name() {}
isNamedExportFunction(node, name) ==
    /\ node.declaration.type = "FunctionDeclaration"
    /\ node.declaration.id.name = name

\* A variant of VariableLoop that goes on to the next declarator instead of
\* returning on the first one.
VariableLoopEveryDeclarator(declarations, k, name) ==
    \E j \in k..Len(declarations) :
        /\ declarations[j].type = "VariableDeclarator"
        /\ declarations[j].id.type = "Identifier"
        /\ declarations[j].id.name = name

\* The for-of loop of isNamedExportVariable, entered at declarator k (1 is
\* the first).  Every path through the body returns, so the loop never
\* reaches declarator k + 1; past the end it falls out to `return false`.
VariableLoop(declarations, k, name) ==
    IF k > Len(declarations) THEN FALSE
    ELSE IF declarations[k].type # "VariableDeclarator" THEN FALSE
    ELSE IF declarations[k].id.type # "Identifier" THEN FALSE
    ELSE declarations[k].id.name = name

\* export const name = ..., export let name1, name2
isNamedExportVariable(node, name) ==
    IF node.declaration.type # "VariableDeclaration" THEN FALSE
    ELSE VariableLoop(node.declaration.declarations, 1, name)

\* A variant of DestructuredLoop that returns false when the declarator's
\* pattern has no property, instead of going on to the next declarator.
DestructuredLoopFirstDeclaratorOnly(declarations, k, name) ==
    /\ k <= Len(declarations)
    /\ declarations[k].type = "VariableDeclarator"
    /\ declarations[k].id.type = "ObjectPattern"
    /\ Len(declarations[k].id.properties) >= 1
    /\ declarations[k].id.properties[1].type = "ObjectProperty"
    /\ isIdentifier(declarations[k].id.properties[1].value)
    /\ declarations[k].id.properties[1].value.name = name

\* The for-of loop of isNamedExportDestructuredVariable, entered at
\* declarator k.  The inner index loop returns in its first iteration; when
\* the pattern has no property the inner loop body never runs and the outer
\* loop goes on to declarator k + 1.
RECURSIVE DestructuredLoop(_, _, _)
DestructuredLoop(declarations, k, name) ==
    IF k > Len(declarations) THEN FALSE
    ELSE IF declarations[k].type # "VariableDeclarator" THEN FALSE
    ELSE IF declarations[k].id.type # "ObjectPattern" THEN FALSE
    ELSE IF ~(1 <= Len(declarations[k].id.properties))
         THEN DestructuredLoop(declarations, k + 1, name)
    ELSE LET property == declarations[k].id.properties[1]
         IN  IF property.type # "ObjectProperty" \/ ~isIdentifier(property.value)
             THEN FALSE
             ELSE property.value.name = name

\* export const { name } = {}, export const { name1, name2: bar } = {}
isNamedExportDestructuredVariable(node, name) ==
    IF node.declaration.type # "VariableDeclaration" THEN FALSE
    ELSE DestructuredLoop(node.declaration.declarations, 1, name)

\* A variant of isNamedExportSpecifier that compares the local name.
isNamedExportSpecifierByLocal(node, name) ==
    \E k \in 1..Len(node.specifiers) :
        /\ isExportSpecifier(node.specifiers[k])
        /\ node.specifiers[k].local = name

\* export { name1, name2, nameN }
isNamedExportSpecifier(node, name) ==
    \E k \in 1..Len(node.specifiers) :
        /\ isExportSpecifier(node.specifiers[k])
        /\ isIdentifier(node.specifiers[k].exported)
        /\ node.specifiers[k].exported.name = name

\* The combinator: the four comparators, or-ed in this order.
isNamedExport(node, name) ==
    \/ isNamedExportFunction(node, name)
    \/ isNamedExportVariable(node, name)
    \/ isNamedExportDestructuredVariable(node, name)
    \/ isNamedExportSpecifier(node, name)

\* ------------------------------------------------ inputs of the comparators
\* Properties of the patterns the comparators are called on: `{ n }`,
\* `{ a: { ... } }` and `{ ...rest }`.
ComparatorProperties ==
    {ObjectProperty(n, Identifier(n)) : n \in Names}
        \cup {ObjectProperty("a", NoNode("ObjectPattern")), RestElement}

\* Declarators that count w nodes: an identifier, an array pattern or an
\* empty object pattern counts one, an object pattern one more per property.
DeclaratorsOfWeight(w) ==
    IF w = 1
    THEN {VariableDeclarator(IdentifierId(n)) : n \in Names}
             \cup {VariableDeclarator(ArrayPatternId), VariableDeclarator(ObjectPatternId(<<>>))}
    ELSE {VariableDeclarator(ObjectPatternId(Stamp(ps))) : ps \in [1..(w - 1) -> ComparatorProperties]}

\* Declarator lists that count at most n nodes.
RECURSIVE DeclaratorLists(_)
DeclaratorLists(n) ==
    {<<>>} \cup UNION {{<<d>> \o rest : d \in DeclaratorsOfWeight(w), rest \in DeclaratorLists(n - w)} : w \in 1..n}

Specifiers ==
    {ExportSpecifier(l, Identifier(e)) : l \in Names, e \in Names}
        \cup {ExportSpecifier(l, StringLiteral) : l \in Names}
        \cup {ExportNamespaceSpecifier(Identifier(e)) : e \in Names}

SpecifierLists == UNION {[1..n -> Specifiers] : n \in 0..MaxSpecifiers}

NamedDeclarations ==
    {FunctionDeclaration(IdentifierId(n)) : n \in Names}
        \cup {FunctionDeclaration(NullId)}
        \cup {ClassDeclaration(IdentifierId(n)) : n \in Names}

\* What @babel/parser produces: a declaration or a specifier list, not both.
ParsedNodes ==
    {ExportNamedDeclaration(d, <<>>) : d \in NamedDeclarations}
        \cup {ExportNamedDeclaration(VariableDeclaration(ds), <<>>) : ds \in DeclaratorLists(MaxNodes)}
        \cup {ExportNamedDeclaration(NullDeclaration, ss) : ss \in SpecifierLists}

\* What t.exportNamedDeclaration(declaration, specifiers) also accepts: both.
BuiltNodes ==
    {ExportNamedDeclaration(d, <<s>>) :
        d \in NamedDeclarations \cup {VariableDeclaration(<<x>>) : x \in DeclaratorsOfWeight(1)},
        s \in Specifiers}

Nodes == ParsedNodes \cup BuiltNodes

\* ------------------------------------------------- inputs of the visitor
\* Properties of the patterns the visitor walks: `{ n }`, `{ k: { ... } }`
\* and `{ ...rest }`.
VisitorProperties ==
    {ObjectProperty(n, Identifier(n)) : n \in Names}
        \cup {ObjectProperty(k, NoNode("ObjectPattern")) : k \in Names}
        \cup {RestElement}

\* What the parser accepts in an exported declaration: a rest element comes
\* last, and no name is bound (hence exported) twice.
Parses(ps) ==
    /\ \A k \in 1..Len(ps) : ps[k].type = "RestElement" => k = Len(ps)
    /\ \A j, k \in 1..Len(ps) :
          (j # k /\ ps[j].value.type = "Identifier") => ps[j].value # ps[k].value

Patterns ==
    UNION {{Stamp(ps) : ps \in {qs \in [1..n -> VisitorProperties] : Parses(qs)}} : n \in 0..MaxPatternLen}

\* ------------------------------------------------------------------- state
VARIABLES
    node,               \* the ExportNamedDeclaration a comparator is called on
    name,               \* the name it is called with
    called,             \* which comparator has returned, "none" before the call
    ret,                \* what it returned
    properties,         \* objectPath.node.properties, the live list
    propertiesToRemove, \* this.propertiesToRemove
    pc,                 \* where the ObjectPattern callback stands
    i,                  \* its loop index, counted from 0
    property,           \* its `property`, read at the top of the loop body
    parsed,             \* the property list as parsed, before any traversal
    start,              \* the property list when the running pass began
    removed,            \* uids remove() detached in the running pass, in order
    iters,              \* loop iterations of the running pass
    passes              \* traversals started so far

cvars == <<node, name, called, ret>>
rvars == <<properties, propertiesToRemove, pc, i, property, parsed, start, removed, iters, passes>>
vars == <<cvars, rvars>>

\* --------------------------------------------------- calling the comparators
Comparators ==
    {"isNamedExportFunction", "isNamedExportVariable",
     "isNamedExportDestructuredVariable", "isNamedExportSpecifier", "isNamedExport"}

VisitorIdle ==
    /\ properties = <<>>
    /\ propertiesToRemove = {}
    /\ pc = "idle"
    /\ i = 0
    /\ property = RestElement
    /\ parsed = <<>>
    /\ start = <<>>
    /\ removed = <<>>
    /\ iters = 0
    /\ passes = 0

InitComparators ==
    /\ node \in Nodes
    /\ name \in Names
    /\ called = "none"
    /\ ret = FALSE
    /\ VisitorIdle

Return(f, v) ==
    /\ called = "none"
    /\ pc = "idle"
    /\ passes = 0
    /\ called' = f
    /\ ret' = v
    /\ UNCHANGED <<node, name>>
    /\ UNCHANGED rvars

CallIsNamedExportFunction == Return("isNamedExportFunction", isNamedExportFunction(node, name))
CallIsNamedExportVariable == Return("isNamedExportVariable", isNamedExportVariable(node, name))
CallIsNamedExportDestructuredVariable ==
    Return("isNamedExportDestructuredVariable", isNamedExportDestructuredVariable(node, name))
CallIsNamedExportSpecifier == Return("isNamedExportSpecifier", isNamedExportSpecifier(node, name))
CallIsNamedExport == Return("isNamedExport", isNamedExport(node, name))

NextComparators ==
    \/ CallIsNamedExportFunction
    \/ CallIsNamedExportVariable
    \/ CallIsNamedExportDestructuredVariable
    \/ CallIsNamedExportSpecifier
    \/ CallIsNamedExport

SpecComparators == InitComparators /\ [][NextComparators]_vars

\* ------------------------------------------------------------- the visitor
\* A variant of IsRemovalTarget that compares the key as written (`bar` of
\* `bar: baz`) and not the bound identifier.
IsRemovalTargetByKey(p, toRemove) ==
    /\ p.type = "ObjectProperty"
    /\ p.key \in toRemove

\* The condition guarding the removal.
IsRemovalTarget(p, toRemove) ==
    /\ p.type = "ObjectProperty"
    /\ p.value.type = "Identifier"
    /\ p.value.name \in toRemove

\* A variant of ReadProperty that reads from a copy of the list taken when
\* the callback was entered.
ReadPropertyOfCopy(ps, k) == start[k + 1]

\* objectPath.node.properties[k], k counted from 0.
ReadProperty(ps, k) == ps[k + 1]

\* NodePath.remove() on objectPath.get(`properties.${k}`): the container
\* list without its entry at index k, later entries one place down.
RemoveAt(ps, k) == [j \in 1..(Len(ps) - 1) |-> IF j <= k THEN ps[j] ELSE ps[j + 1]]

\* A variant of NextIndex that stays on the index an entry was removed at.
NextIndexStaying(k, didRemove) == IF didRemove THEN k ELSE k + 1

\* The loop's i++, taken after every iteration, a removal or not.
NextIndex(k, didRemove) == k + 1

\* path.traverse(RemoveNamedExportPropertiesVisitor, { propertiesToRemove })
\* reaches the ObjectPattern and enters the callback.
Traverse ==
    /\ pc \in {"idle", "done"}
    /\ called = "none"
    /\ passes < MaxPasses
    /\ pc' = "loop"
    /\ i' = 0
    /\ start' = properties
    /\ removed' = <<>>
    /\ iters' = 0
    /\ passes' = passes + 1
    /\ UNCHANGED <<properties, propertiesToRemove, property, parsed>>
    /\ UNCHANGED cvars

\* The loop condition fails: the callback returns.
LoopExit ==
    /\ pc = "loop"
    /\ ~(i < Len(properties))
    /\ pc' = "done"
    /\ UNCHANGED <<properties, propertiesToRemove, i, property, parsed, start, removed, iters, passes>>
    /\ UNCHANGED cvars

\* One iteration up to the test: reads properties[i] and tests it.
VisitProperty ==
    /\ pc = "loop"
    /\ i < Len(properties)
    /\ property' = ReadProperty(properties, i)
    /\ iters' = iters + 1
    /\ IF IsRemovalTarget(property', propertiesToRemove)
       THEN pc' = "remove" /\ i' = i
       ELSE pc' = "loop" /\ i' = NextIndex(i, FALSE)
    /\ UNCHANGED <<properties, propertiesToRemove, parsed, start, removed, passes>>
    /\ UNCHANGED cvars

\* The rest of a matching iteration: the path at index i is removed.
RemoveProperty ==
    /\ pc = "remove"
    /\ removed' = Append(removed, properties[i + 1].uid)
    /\ properties' = RemoveAt(properties, i)
    /\ i' = NextIndex(i, TRUE)
    /\ pc' = "loop"
    /\ UNCHANGED <<propertiesToRemove, property, parsed, start, iters, passes>>
    /\ UNCHANGED cvars

InitVisitor ==
    /\ node = ExportNamedDeclaration(NullDeclaration, <<>>)
    /\ name = "a"
    /\ called = "none"
    /\ ret = FALSE
    /\ properties \in Patterns
    /\ propertiesToRemove \in SUBSET Names
    /\ pc = "idle"
    /\ i = 0
    /\ property = RestElement
    /\ parsed = properties
    /\ start = properties
    /\ removed = <<>>
    /\ iters = 0
    /\ passes = 0

NextVisitor ==
    \/ Traverse
    \/ LoopExit
    \/ VisitProperty
    \/ RemoveProperty

SpecVisitor == InitVisitor /\ [][NextVisitor]_vars

\* ------------------------------------------------------------ both together
Init == InitComparators \/ InitVisitor
Next == NextComparators \/ NextVisitor
Spec == Init /\ [][Next]_vars

\* ================================================================== claims
\* What the claims speak of, stated on the AST alone.

\* The set of entries of a sequence.
Range(s) == {s[k] : k \in 1..Len(s)}

\* An ObjectProperty whose value is an Identifier named in the set.
BindsNameIn(p, set) ==
    p.type = "ObjectProperty" /\ p.value.type = "Identifier" /\ p.value.name \in set

\* No inner declaration together with a non-empty specifier list.
WellFormed(n) == n.declaration.type = "null" \/ n.specifiers = <<>>

\* A declaration of one of the four forms: a named function, declarators that
\* are identifiers or patterns of identifier-valued properties, or a list of
\* `local as exported` specifiers.
OfTheFourForms(n) ==
    /\ WellFormed(n)
    /\ \/ n.declaration.type = "FunctionDeclaration" /\ n.declaration.id.type = "Identifier"
       \/ /\ n.declaration.type = "VariableDeclaration"
          /\ n.declaration.declarations # <<>>
          /\ \A d \in Range(n.declaration.declarations) :
                \/ d.id.type = "Identifier"
                \/ /\ d.id.type = "ObjectPattern"
                   /\ d.id.properties # <<>>
                   /\ \A q \in Range(d.id.properties) : BindsNameIn(q, Names)
       \/ /\ n.declaration.type = "null"
          /\ n.specifiers # <<>>
          /\ \A sp \in Range(n.specifiers) :
                sp.type = "ExportSpecifier" /\ sp.exported.type = "Identifier"

\* The names a declaration of the four forms exports.
ExportedNames(n) ==
    {x \in Names :
        \/ n.declaration.type = "FunctionDeclaration" /\ n.declaration.id.name = x
        \/ \E d \in Range(n.declaration.declarations) :
              \/ d.id.type = "Identifier" /\ d.id.name = x
              \/ d.id.type = "ObjectPattern" /\ \E q \in Range(d.id.properties) : BindsNameIn(q, {x})
        \/ \E sp \in Range(n.specifiers) : sp.exported.name = x}

\* C3: on a well-formed declaration of one of the four forms, isNamedExport
\* is true exactly for the names the declaration exports.
C3_MatchesExactlyTheExportedNames ==
    (called = "isNamedExport" /\ OfTheFourForms(node)) => (ret = (name \in ExportedNames(node)))

\* The first declarator's pattern is an object pattern whose first property
\* is an ObjectProperty with an Identifier value named x.
FirstPropertyOfFirstDeclarator(n, x) ==
    /\ n.declaration.type = "VariableDeclaration"
    /\ n.declaration.declarations # <<>>
    /\ n.declaration.declarations[1].id.type = "ObjectPattern"
    /\ n.declaration.declarations[1].id.properties # <<>>
    /\ BindsNameIn(n.declaration.declarations[1].id.properties[1], {x})

FirstPropertyOfFirstNonEmptyPattern(n, x) ==
    /\ n.declaration.type = "VariableDeclaration"
    /\ \E k \in 1..Len(n.declaration.declarations) :
          /\ \A j \in 1..(k - 1) :
                /\ n.declaration.declarations[j].id.type = "ObjectPattern"
                /\ n.declaration.declarations[j].id.properties = <<>>
          /\ n.declaration.declarations[k].id.type = "ObjectPattern"
          /\ n.declaration.declarations[k].id.properties # <<>>
          /\ BindsNameIn(n.declaration.declarations[k].id.properties[1], {x})

C6_AnySpecifierByExportedName ==
    called = "isNamedExportSpecifier" =>
        (ret = (\E sp \in Range(node.specifiers) :
                    sp.type = "ExportSpecifier" /\ sp.exported = Identifier(name)))

\* `export { x, y as z }` asked for z: matched at the second position, where
\* the local name differs.
C6_Witness ==
    /\ called = "isNamedExportSpecifier"
    /\ ret
    /\ Len(node.specifiers) = 2
    /\ node.specifiers[1].exported # Identifier(name)
    /\ node.specifiers[2].local # name
    /\ \E sp \in Range(node.specifiers) : sp.local = name /\ sp.exported # Identifier(name)

\* The comparators that hold of a declaration and a name.
Holding(n, x) ==
    {f \in Comparators \ {"isNamedExport"} :
        \/ f = "isNamedExportFunction" /\ isNamedExportFunction(n, x)
        \/ f = "isNamedExportVariable" /\ isNamedExportVariable(n, x)
        \/ f = "isNamedExportDestructuredVariable" /\ isNamedExportDestructuredVariable(n, x)
        \/ f = "isNamedExportSpecifier" /\ isNamedExportSpecifier(n, x)}

\* C8: isNamedExport is true iff one of the four comparators is, and on a
\* well-formed declaration at most one of them is.
C8_OrOfMutuallyExclusiveForms ==
    called = "isNamedExport" =>
        /\ ret = (Holding(node, name) # {})
        /\ WellFormed(node) => Cardinality(Holding(node, name)) <= 1

\* `export var { a } = x, a` asked for a: the destructured form matches, and
\* the simple-variable form would if it looked past the first declarator.
C8_Witness ==
    /\ called = "isNamedExport"
    /\ ret
    /\ WellFormed(node)
    /\ Len(node.declaration.declarations) >= 2
    /\ node.declaration.declarations[1].id.type = "ObjectPattern"
    /\ node.declaration.declarations[2].id = IdentifierId(name)

\* C1: one pass of the visitor leaves no ObjectProperty whose value is an
\* Identifier named in the removal set.
C1_OnePassRemovesEveryMatch ==
    (pc = "done" /\ passes = 1) => \A q \in Range(properties) : ~BindsNameIn(q, propertiesToRemove)

\* C2: a second pass with the same removal set performs no deletion and
\* leaves the list as the first pass left it.
C2_SecondPassIsNoOp ==
    (pc = "done" /\ passes = 2) => (removed = <<>> /\ properties = start)

\* C7: the visitor deletes only ObjectProperty entries whose value is an
\* Identifier named in the removal set; every other entry stays and the
\* survivors keep their order; nothing matching, nothing is deleted.
C7_OnlyMatchingEntriesDeleted ==
    /\ properties = SelectSeq(start, LAMBDA q : q.uid \notin Range(removed))
    /\ \A q \in Range(start) : q.uid \in Range(removed) => BindsNameIn(q, propertiesToRemove)
    /\ (\A q \in Range(start) : ~BindsNameIn(q, propertiesToRemove)) => properties = start

\* A pass has ended that deleted an entry and walked past a nested pattern
\* whose key is in the removal set.
C7_Witness ==
    /\ pc = "done"
    /\ removed # <<>>
    /\ \E q \in Range(properties) : q.value.type = "ObjectPattern" /\ q.key \in propertiesToRemove

\* C9: remove() is called on the property at index i of the live list, the
\* one just tested, still attached; no property is removed twice; a pass
\* makes at most as many iterations as the list had entries when it began.
C9_RemoveTargetsTestedProperty ==
    /\ pc = "remove" =>
          /\ i < Len(properties)
          /\ properties[i + 1] = property
          /\ BindsNameIn(property, propertiesToRemove)
          /\ property.uid \notin Range(removed)
    /\ Cardinality(Range(removed)) = Len(removed)
    /\ iters <= Len(start)
    /\ pc = "loop" => i <= iters

\* A second removal of the same pass is about to happen.
C9_Witness ==
    /\ pc = "remove"
    /\ removed # <<>>

====
